---- MODULE Spec2Model ----
(***************************************************************************)
(* Sign-language detection core of frontend-babes:                         *)
(*   - the confidence smoother  SignLanguageDetector.smoothGesture         *)
(*   - the sentence assembler   SentenceBuilder (addLetter, addSpace, ...)  *)
(*   - the detection loop       useAIServices.startSignDetection /          *)
(*                              stopSignDetection (async setInterval)       *)
(* Strings are sequences of one-character strings; the JavaScript null is   *)
(* the value Null; the empty string '' is the empty sequence or "".        *)
(***************************************************************************)
EXTENDS Integers, Sequences, FiniteSets, TLC

\* ------------------------------------------------------------------ bounds
MaxConf == 4          \* cap on a confidence counter (guard of the feeding actions)
MaxTime == 1          \* how many steps of its size each clock step may lead from StartTime
MaxWordLen == 3       \* cap on the length of currentWord
MaxSentenceLen == 3   \* cap on the length of sentence
MaxInFlight == 2      \* cap on detection ticks awaiting estimateHands
MaxTicks == 3         \* cap on the number of detection ticks fired
MaxIntervals == 2     \* cap on setInterval timers created
MaxShapes == 2        \* cap on the shape tests that hold in one frame
MaxHold == 3          \* how far a held gesture's counter may pass MaxConf
MaxAlt == 6           \* cap on the length of an alternating stretch of inputs
MaxLoop == 12         \* cap on the counter of a gesture held through the detection loop

\* ------------------------------------------------------- program constants
minConfidenceFrames == 2
gestureDebounceTime == 100
DecayAmount == 2
letterHoldTime == 1500
DuplicateWindow == 2000
DetectionInterval == 500
ThumbThreshold == 25
FingerThreshold == 30

Null == "null"

\* ------------------------------------------------------------------ symbols
fistLikeGestures == {"N", "M", "C", "E", "A", "S", "T", "O"}
fingerGestures == {"F", "K", "P", "Q", "R", "U", "V", "W", "X", "H", "B", "G"}
thumbOverlapGestures == {"N", "M", "P", "K"}

\* the letters the model feeds (two of one confusable group, one of another)
Letters == {"C", "E", "H", "T"}
\* the arguments the model passes to addLetter directly: letters as the detection
\* loop passes them, a lowercase letter, the special gestures and a non-letter
LetterInputs == {"E", "T", "t"}
\* the letters of the word scenarios ("teh", "the", ...), each in upper case as the
\* detection loop passes them
WordInputs == {"T", "E", "H"}
SpecialInputs == {"SPACE", "BACKSPACE", "DELETE", "CLEAR", "unknown"}
\* the texts the model passes to setSentence
SentenceInputs == {<<>>, <<"H","i"," ","t","h","e","r","e">>, <<"H","i"," ">>}
\* everything classifyGesture can hand to smoothGesture
RawSymbols == Letters \cup {"unknown", "none"}

Max(a, b) == IF a >= b THEN a ELSE b
Min(a, b) == IF a <= b THEN a ELSE b

VARIABLES
  now,                   \* Date.now()
  gestureConfidence,     \* Map gesture -> confidence (absent key = 0)
  lastGesture,
  lastGestureTimestamp,
  smoothed,              \* value returned by the latest smoothGesture call
  feedSym, feedRun, feedFresh, feedSpaced, feedTime
                         \* the input stream of smoothGesture: latest input, length of
                         \* its current run, whether every input so far was the same,
                         \* whether all calls so far were >= gestureDebounceTime apart,
                         \* and the time of the latest call

VARIABLES
  altLen,                \* inputs so far of a stretch a,b,a,b,... of smoothGesture
                         \* inputs that began with no counter positive but that
                         \* of lastGesture (0: no such stretch)
  altPrev,               \* the input before the latest one of the stretch
  altStart               \* lastGesture when the stretch began

VARIABLES
  heldFrom,              \* length of currentWord when the hand now held came into the frame
  heldFirst              \* time of the first addLetter call that appended the held
                         \* letter (0: none yet)

VARIABLES
  currentWord,           \* SentenceBuilder fields
  sentence,
  lastLetter,
  lastLetterTimestamp,
  action,                \* action tag returned by the latest SentenceBuilder call
  correctedWord          \* correctedWord returned by the latest SentenceBuilder call

VARIABLES
  isInitialized,         \* SignLanguageDetector.isInitialized (detector created)
  signDetectionEnabled,  \* hook state set by initializeAI
  detectionIntervalRef,  \* the hook's ref: a timer id, or 0 for null
  timers,                \* ids of the active setInterval timers
  due,                   \* active timers whose period has elapsed since they last fired
  intervalsCreated,      \* number of setInterval calls so far (the next id is this + 1)
  ticksFired,            \* number of interval callbacks started so far
  inflight               \* callbacks awaiting estimateHands, by their number

VARIABLES
  hand,                  \* the first hand of the frame being classified
  extended,              \* the fingers classifyGesture found extended in it
  rawGesture             \* what classifyGesture returned for it

smootherVars == <<gestureConfidence, lastGesture, lastGestureTimestamp>>
altVars == <<altLen, altPrev, altStart>>
holdVars == <<heldFrom, heldFirst>>
feedVars == <<feedSym, feedRun, feedFresh, feedSpaced, feedTime, altVars, holdVars>>
classifierVars == <<hand, extended, rawGesture>>
detectorVars == <<smootherVars, smoothed, feedVars, classifierVars>>
builderState == <<currentWord, sentence, lastLetter, lastLetterTimestamp>>
builderVars == <<builderState, action, correctedWord>>
hookVars == <<isInitialized, signDetectionEnabled, detectionIntervalRef, timers, due,
              intervalsCreated, ticksFired, inflight>>
vars == <<now, detectorVars, builderVars, hookVars>>

\* Date.now() at module load is far later than every window after the epoch 0
StartTime == 2 * DuplicateWindow

\* ---------------------------------------------------------------- smoother
isSimilarSwitch(c, last) ==
  \/ c \in fistLikeGestures /\ last \in fistLikeGestures
  \/ c \in fingerGestures /\ last \in fingerGestures
  \/ c \in thumbOverlapGestures /\ last \in thumbOverlapGestures

\* variant: a similar switch resets nothing
hardResetSkipped(conf, c, last) == conf

\* lines 1234-1244: hard reset of the old gesture on a similar switch
hardReset(conf, c, last) ==
  IF last # c /\ isSimilarSwitch(c, last) THEN [conf EXCEPT ![last] = 0] ELSE conf

\* line 1247: the confidence read before the increment
currentConfidence(conf, c, last) == hardReset(conf, c, last)[c]

\* variant: the other gestures keep their counters
incrementOnly(conf, c) == [g \in DOMAIN conf |-> IF g = c THEN conf[g] + 1 ELSE conf[g]]

\* variant: the other gestures decay by one per call
incrementAndDecaySlow(conf, c) ==
  [g \in DOMAIN conf |->
     IF g = c THEN conf[g] + 1
     ELSE IF conf[g] > 0 THEN Max(0, conf[g] - 1) ELSE conf[g]]

\* lines 1246-1255: increment the detected gesture, decay the others
incrementAndDecay(conf, c) ==
  [g \in DOMAIN conf |->
     IF g = c THEN conf[g] + 1
     ELSE IF conf[g] > 0 THEN Max(0, conf[g] - DecayAmount) ELSE conf[g]]

\* line 1268
hasEnoughFrames(cur) == cur >= minConfidenceFrames

\* variant: a switch outside the confusable groups is blocked at any time
debounceBlocksAlways(c, last, t, ts) == ~isSimilarSwitch(c, last)

\* line 1278
debounceBlocks(c, last, t, ts) ==
  ~isSimilarSwitch(c, last) /\ t - ts < gestureDebounceTime

\* variant: a symbol short of frames gives the last confirmed gesture back
notEnoughResultStale(c, last) == last

\* lines 1289-1298
notEnoughResult(c, last) == IF c # last THEN Null ELSE last

\* lines 1219-1299: the whole call; result is the new state and the return value
smoothGesture(conf, last, ts, c, t) ==
  LET cur == currentConfidence(conf, c, last)
      conf2 == incrementAndDecay(hardReset(conf, c, last), c)
  IN IF hasEnoughFrames(cur)
       THEN IF c # last
              THEN IF debounceBlocks(c, last, t, ts)
                     THEN [conf |-> conf2, last |-> last, ts |-> ts, ret |-> last]
                     ELSE [conf |-> conf2, last |-> c, ts |-> t, ret |-> c]
              ELSE [conf |-> conf2, last |-> last, ts |-> ts, ret |-> c]
       ELSE [conf |-> conf2, last |-> last, ts |-> ts, ret |-> notEnoughResult(c, last)]

\* one call of smoothGesture with input c at the current time
SmoothCall(c) ==
  /\ gestureConfidence[c] < MaxConf
  /\ LET r == smoothGesture(gestureConfidence, lastGesture, lastGestureTimestamp, c, now)
     IN /\ gestureConfidence' = r.conf
        /\ lastGesture' = r.last
        /\ lastGestureTimestamp' = r.ts
        /\ smoothed' = r.ret

\* a call of smoothGesture on its own, with the record of the run of inputs
FeedCall(c) ==
  /\ SmoothCall(c)
  /\ feedSym' = c
  /\ feedRun' = IF c = feedSym THEN feedRun + 1 ELSE 1
  /\ feedFresh' = (feedFresh /\ (feedRun = 0 \/ c = feedSym))
  /\ feedSpaced' = (feedSpaced /\ (feedRun = 0 \/ now - feedTime >= gestureDebounceTime))
  /\ feedTime' = now
  /\ UNCHANGED <<now, classifierVars, builderVars, hookVars>>

Feed(c) == FeedCall(c) /\ UNCHANGED <<altVars, holdVars>>

\* no symbol other than lastGesture has a positive counter
onlyLastPositive ==
  \A s \in DOMAIN gestureConfidence : s # lastGesture => gestureConfidence[s] = 0

\* a call of smoothGesture that begins or continues an alternating stretch
Alternate(c) ==
  /\ altLen < MaxAlt
  /\ \/ altLen = 0 /\ onlyLastPositive
     \/ altLen = 1 /\ c # feedSym
     \/ altLen >= 2 /\ c = altPrev
  /\ FeedCall(c)
  /\ altLen' = altLen + 1
  /\ altPrev' = IF altLen = 0 THEN Null ELSE feedSym
  /\ altStart' = IF altLen = 0 THEN lastGesture ELSE altStart
  /\ UNCHANGED holdVars


\* --------------------------------------------------------------- assembler
UpperCase == <<"A","B","C","D","E","F","G","H","I","J","K","L","M",
               "N","O","P","Q","R","S","T","U","V","W","X","Y","Z">>
LowerCase == <<"a","b","c","d","e","f","g","h","i","j","k","l","m",
               "n","o","p","q","r","s","t","u","v","w","x","y","z">>
Range(f) == {f[i] : i \in DOMAIN f}
IndexIn(ch, alphabet) == CHOOSE i \in DOMAIN alphabet : alphabet[i] = ch

\* variant: no case conversion
toLowerCaseKept(ch) == ch

\* String.prototype.toUpperCase / toLowerCase on a one-character string (or a tag)
toUpperCase(ch) == IF ch \in Range(LowerCase) THEN UpperCase[IndexIn(ch, LowerCase)] ELSE ch
toLowerCase(ch) == IF ch \in Range(UpperCase) THEN LowerCase[IndexIn(ch, UpperCase)] ELSE ch
\* /^[A-Z]$/i
isSingleLetter(x) == x \in Range(UpperCase) \cup Range(LowerCase)

\* String.prototype.slice(-n)
sliceLast(w, n) == IF Len(w) <= n THEN w ELSE SubSeq(w, Len(w) - n + 1, Len(w))
\* currentWord.slice(-1), as a one-character string or ''
lastCharOf(w) == IF Len(w) = 0 THEN "" ELSE w[Len(w)]

\* autoCorrectDict, in insertion order: <<misspelling, correction>>
autoCorrectDict == <<
  <<<<"t","e","h">>, <<"t","h","e">>>>,
  <<<<"h","t","e">>, <<"t","h","e">>>>,
  <<<<"a","d","n">>, <<"a","n","d">>>>,
  <<<<"n","a","d">>, <<"a","n","d">>>>,
  <<<<"t","h","s","i">>, <<"t","h","i","s">>>>,
  <<<<"t","a","h","t">>, <<"t","h","a","t">>>>,
  <<<<"w","a","h","t">>, <<"w","h","a","t">>>>,
  <<<<"w","i","h","t">>, <<"w","i","t","h">>>>,
  <<<<"w","n","a","t">>, <<"w","a","n","t">>>>,
  <<<<"h","v","a","e">>, <<"h","a","v","e">>>>,
  <<<<"c","n","a">>, <<"c","a","n">>>>,
  <<<<"y","u","o">>, <<"y","o","u">>>>,
  <<<<"y","u","o","r">>, <<"y","o","u","r">>>>,
  <<<<"j","s","u","t">>, <<"j","u","s","t">>>>,
  <<<<"d","o","n","t">>, <<"d","o","n","'","t">>>>,
  <<<<"c","a","n","t">>, <<"c","a","n","'","t">>>>,
  <<<<"w","o","n","t">>, <<"w","o","n","'","t">>>>,
  <<<<"i","m">>, <<"i","'","m">>>>,
  <<<<"i","l","l">>, <<"i","'","l","l">>>>,
  <<<<"h","e","l","o">>, <<"h","e","l","l","o">>>>,
  <<<<"h","e","l","l","l","o">>, <<"h","e","l","l","o">>>>,
  <<<<"h","l","l","o">>, <<"h","e","l","l","o">>>>,
  <<<<"t","h","a","n","k","k","s">>, <<"t","h","a","n","k","s">>>>,
  <<<<"t","h","a","n","x">>, <<"t","h","a","n","k","s">>>>,
  <<<<"p","l","z">>, <<"p","l","e","a","s","e">>>>,
  <<<<"p","l","s">>, <<"p","l","e","a","s","e">>>>,
  <<<<"s","r","y">>, <<"s","o","r","r","y">>>>,
  <<<<"s","r","r","y">>, <<"s","o","r","r","y">>>>,
  <<<<"b","e","c","u","a","s","e">>, <<"b","e","c","a","u","s","e">>>>,
  <<<<"b","e","a","c","u","s","e">>, <<"b","e","c","a","u","s","e">>>>,
  <<<<"f","r","e","i","n","d">>, <<"f","r","i","e","n","d">>>>,
  <<<<"f","r","e","n","d">>, <<"f","r","i","e","n","d">>>>,
  <<<<"r","e","c","i","e","v","e">>, <<"r","e","c","e","i","v","e">>>>,
  <<<<"r","e","c","i","v","e">>, <<"r","e","c","e","i","v","e">>>>,
  <<<<"b","e","l","e","i","v","e">>, <<"b","e","l","i","e","v","e">>>>,
  <<<<"b","e","l","i","v","e">>, <<"b","e","l","i","e","v","e">>>>,
  <<<<"o","c","c","u","r","e","d">>, <<"o","c","c","u","r","r","e","d">>>>,
  <<<<"s","e","p","e","r","a","t","e">>, <<"s","e","p","a","r","a","t","e">>>>,
  <<<<"d","e","f","i","n","a","t","e","l","y">>, <<"d","e","f","i","n","i","t","e","l","y">>>>,
  <<<<"t","o","m","m","o","r","r","o","w">>, <<"t","o","m","o","r","r","o","w">>>>,
  <<<<"t","o","n","i","t","e">>, <<"t","o","n","i","g","h","t">>>>,
  <<<<"u","n","t","i","l","l">>, <<"u","n","t","i","l">>>>,
  <<<<"t","h","i","e","r">>, <<"t","h","e","i","r">>>>,
  <<<<"o","c","c","a","s","s","i","o","n">>, <<"o","c","c","a","s","i","o","n">>>>,
  <<<<"e","m","b","a","r","a","s","s">>, <<"e","m","b","a","r","r","a","s","s">>>>,
  <<<<"r","e","a","l","y">>, <<"r","e","a","l","l","y">>>>,
  <<<<"g","o","v","e","r","m","e","n","t">>, <<"g","o","v","e","r","n","m","e","n","t">>>>,
  <<<<"e","n","v","i","r","o","m","e","n","t">>, <<"e","n","v","i","r","o","n","m","e","n","t">>>>
>>

\* commonWords, in insertion order (a Set: a repeated word keeps its first place)
commonWords == <<
  <<"i">>,
  <<"m","e">>,
  <<"m","y">>,
  <<"y","o","u">>,
  <<"y","o","u","r">>,
  <<"h","e">>,
  <<"h","i","m">>,
  <<"h","i","s">>,
  <<"s","h","e">>,
  <<"h","e","r">>,
  <<"i","t">>,
  <<"i","t","s">>,
  <<"w","e">>,
  <<"u","s">>,
  <<"o","u","r">>,
  <<"t","h","e","y">>,
  <<"t","h","e","m">>,
  <<"t","h","e","i","r">>,
  <<"a","m">>,
  <<"i","s">>,
  <<"a","r","e">>,
  <<"w","a","s">>,
  <<"w","e","r","e">>,
  <<"b","e">>,
  <<"b","e","e","n">>,
  <<"b","e","i","n","g">>,
  <<"h","a","v","e">>,
  <<"h","a","s">>,
  <<"h","a","d">>,
  <<"d","o">>,
  <<"d","o","e","s">>,
  <<"d","i","d">>,
  <<"d","o","n","e">>,
  <<"w","i","l","l">>,
  <<"w","o","u","l","d">>,
  <<"s","h","o","u","l","d">>,
  <<"c","o","u","l","d">>,
  <<"c","a","n">>,
  <<"m","a","y">>,
  <<"m","i","g","h","t">>,
  <<"g","o">>,
  <<"g","o","e","s">>,
  <<"w","e","n","t">>,
  <<"c","o","m","e">>,
  <<"c","o","m","e","s">>,
  <<"c","a","m","e">>,
  <<"g","e","t">>,
  <<"g","e","t","s">>,
  <<"g","o","t">>,
  <<"g","i","v","e">>,
  <<"g","i","v","e","s">>,
  <<"g","a","v","e">>,
  <<"m","a","k","e">>,
  <<"m","a","k","e","s">>,
  <<"m","a","d","e">>,
  <<"t","a","k","e">>,
  <<"t","a","k","e","s">>,
  <<"t","o","o","k">>,
  <<"s","e","e">>,
  <<"s","e","e","s">>,
  <<"s","a","w">>,
  <<"k","n","o","w">>,
  <<"k","n","o","w","s">>,
  <<"k","n","e","w">>,
  <<"t","h","i","n","k">>,
  <<"t","h","i","n","k","s">>,
  <<"t","h","o","u","g","h","t">>,
  <<"w","a","n","t">>,
  <<"w","a","n","t","s">>,
  <<"w","a","n","t","e","d">>,
  <<"n","e","e","d">>,
  <<"n","e","e","d","s">>,
  <<"n","e","e","d","e","d">>,
  <<"l","i","k","e">>,
  <<"l","i","k","e","s">>,
  <<"l","i","k","e","d">>,
  <<"l","o","v","e">>,
  <<"l","o","v","e","s">>,
  <<"l","o","v","e","d">>,
  <<"h","e","l","p">>,
  <<"h","e","l","p","s">>,
  <<"h","e","l","p","e","d">>,
  <<"u","s","e">>,
  <<"u","s","e","s">>,
  <<"u","s","e","d">>,
  <<"w","o","r","k">>,
  <<"w","o","r","k","s">>,
  <<"w","o","r","k","e","d">>,
  <<"t","r","y">>,
  <<"t","r","i","e","s">>,
  <<"t","r","i","e","d">>,
  <<"a","s","k">>,
  <<"a","s","k","s">>,
  <<"a","s","k","e","d">>,
  <<"f","e","e","l">>,
  <<"f","e","e","l","s">>,
  <<"f","e","l","t">>,
  <<"b","e","c","o","m","e">>,
  <<"b","e","c","o","m","e","s">>,
  <<"b","e","c","a","m","e">>,
  <<"l","e","a","v","e">>,
  <<"l","e","a","v","e","s">>,
  <<"l","e","f","t">>,
  <<"p","u","t">>,
  <<"p","u","t","s">>,
  <<"c","a","l","l">>,
  <<"c","a","l","l","s">>,
  <<"c","a","l","l","e","d">>,
  <<"t","h","e">>,
  <<"a">>,
  <<"a","n">>,
  <<"a","n","d">>,
  <<"o","r">>,
  <<"b","u","t">>,
  <<"i","f">>,
  <<"a","s">>,
  <<"o","f">>,
  <<"a","t">>,
  <<"b","y">>,
  <<"f","o","r">>,
  <<"w","i","t","h">>,
  <<"f","r","o","m">>,
  <<"t","o">>,
  <<"i","n">>,
  <<"o","n">>,
  <<"o","f","f">>,
  <<"o","u","t">>,
  <<"u","p">>,
  <<"d","o","w","n">>,
  <<"a","b","o","u","t">>,
  <<"o","v","e","r">>,
  <<"u","n","d","e","r">>,
  <<"a","g","a","i","n">>,
  <<"t","h","e","n">>,
  <<"t","h","a","n">>,
  <<"s","o">>,
  <<"s","u","c","h">>,
  <<"w","h","a","t">>,
  <<"w","h","e","n">>,
  <<"w","h","e","r","e">>,
  <<"w","h","o">>,
  <<"w","h","o","m">>,
  <<"w","h","o","s","e">>,
  <<"w","h","i","c","h">>,
  <<"w","h","y">>,
  <<"h","o","w">>,
  <<"o","n","e">>,
  <<"t","w","o">>,
  <<"t","h","r","e","e">>,
  <<"f","o","u","r">>,
  <<"f","i","v","e">>,
  <<"s","i","x">>,
  <<"s","e","v","e","n">>,
  <<"e","i","g","h","t">>,
  <<"n","i","n","e">>,
  <<"t","e","n">>,
  <<"f","i","r","s","t">>,
  <<"s","e","c","o","n","d">>,
  <<"t","h","i","r","d">>,
  <<"l","a","s","t">>,
  <<"n","e","x","t">>,
  <<"t","o","d","a","y">>,
  <<"t","o","m","o","r","r","o","w">>,
  <<"y","e","s","t","e","r","d","a","y">>,
  <<"n","o","w">>,
  <<"l","a","t","e","r">>,
  <<"s","o","o","n">>,
  <<"n","e","v","e","r">>,
  <<"m","o","r","n","i","n","g">>,
  <<"a","f","t","e","r","n","o","o","n">>,
  <<"e","v","e","n","i","n","g">>,
  <<"n","i","g","h","t">>,
  <<"d","a","y">>,
  <<"w","e","e","k">>,
  <<"m","o","n","t","h">>,
  <<"y","e","a","r">>,
  <<"t","i","m","e">>,
  <<"h","o","u","r">>,
  <<"m","i","n","u","t","e">>,
  <<"g","o","o","d">>,
  <<"g","r","e","a","t">>,
  <<"b","a","d">>,
  <<"n","e","w">>,
  <<"o","l","d">>,
  <<"b","i","g">>,
  <<"s","m","a","l","l">>,
  <<"l","o","n","g">>,
  <<"s","h","o","r","t">>,
  <<"h","i","g","h">>,
  <<"l","o","w">>,
  <<"h","o","t">>,
  <<"c","o","l","d">>,
  <<"w","a","r","m">>,
  <<"c","o","o","l">>,
  <<"f","a","s","t">>,
  <<"s","l","o","w">>,
  <<"e","a","s","y">>,
  <<"h","a","r","d">>,
  <<"h","a","p","p","y">>,
  <<"s","a","d">>,
  <<"n","i","c","e">>,
  <<"p","r","e","t","t","y">>,
  <<"b","e","a","u","t","i","f","u","l">>,
  <<"r","i","g","h","t">>,
  <<"w","r","o","n","g">>,
  <<"t","r","u","e">>,
  <<"f","a","l","s","e">>,
  <<"s","u","r","e">>,
  <<"o","k","a","y">>,
  <<"o","k">>,
  <<"f","i","n","e">>,
  <<"r","e","a","d","y">>,
  <<"b","u","s","y">>,
  <<"f","r","e","e">>,
  <<"f","u","l","l">>,
  <<"e","m","p","t","y">>,
  <<"o","p","e","n">>,
  <<"c","l","o","s","e">>,
  <<"c","l","o","s","e","d">>,
  <<"m","a","n">>,
  <<"w","o","m","a","n">>,
  <<"b","o","y">>,
  <<"g","i","r","l">>,
  <<"p","e","r","s","o","n">>,
  <<"p","e","o","p","l","e">>,
  <<"c","h","i","l","d">>,
  <<"c","h","i","l","d","r","e","n">>,
  <<"f","r","i","e","n","d">>,
  <<"f","a","m","i","l","y">>,
  <<"d","a","d">>,
  <<"m","o","m">>,
  <<"p","a","r","e","n","t">>,
  <<"b","r","o","t","h","e","r">>,
  <<"s","i","s","t","e","r">>,
  <<"h","o","m","e">>,
  <<"h","o","u","s","e">>,
  <<"r","o","o","m">>,
  <<"d","o","o","r">>,
  <<"w","i","n","d","o","w">>,
  <<"c","a","r">>,
  <<"p","h","o","n","e">>,
  <<"c","o","m","p","u","t","e","r">>,
  <<"f","o","o","d">>,
  <<"w","a","t","e","r">>,
  <<"s","c","h","o","o","l">>,
  <<"p","l","a","c","e">>,
  <<"t","h","i","n","g">>,
  <<"w","a","y">>,
  <<"l","i","f","e">>,
  <<"w","o","r","l","d">>,
  <<"h","a","n","d">>,
  <<"e","y","e">>,
  <<"f","a","c","e">>,
  <<"h","e","a","d">>,
  <<"b","o","d","y">>,
  <<"h","e","a","r","t">>,
  <<"p","l","e","a","s","e">>,
  <<"t","h","a","n","k">>,
  <<"t","h","a","n","k","s">>,
  <<"s","o","r","r","y">>,
  <<"e","x","c","u","s","e">>,
  <<"w","e","l","c","o","m","e">>,
  <<"y","e","s">>,
  <<"n","o">>,
  <<"h","e","l","l","o">>,
  <<"h","i">>,
  <<"h","e","y">>,
  <<"b","y","e">>,
  <<"g","o","o","d","b","y","e">>,
  <<"g","o","o","d","n","i","g","h","t">>,
  <<"t","a","l","k">>,
  <<"s","p","e","a","k">>,
  <<"s","a","y">>,
  <<"t","e","l","l">>,
  <<"s","i","g","n">>,
  <<"s","h","o","w">>,
  <<"l","o","o","k">>,
  <<"w","a","t","c","h">>,
  <<"h","e","a","r">>,
  <<"l","i","s","t","e","n">>,
  <<"u","n","d","e","r","s","t","a","n","d">>,
  <<"m","e","a","n">>,
  <<"w","a","i","t">>,
  <<"s","t","o","p">>,
  <<"s","t","a","r","t">>,
  <<"m","e","e","t">>,
  <<"v","i","d","e","o">>,
  <<"c","h","a","t">>,
  <<"m","e","s","s","a","g","e">>,
  <<"t","e","x","t">>
>>

inCommonWords(w) == \E i \in DOMAIN commonWords : commonWords[i] = w
\* the lower-case names every object literal inherits from Object.prototype, and
\* what a read of one yields (a function, which is truthy and no string)
ObjectPrototypeNames == {<<"c","o","n","s","t","r","u","c","t","o","r">>}
FunctionValue == "function"

\* this.autoCorrectDict[w]: the value of the key w, an inherited property when w
\* names one, Null (undefined) otherwise
dictLookup(w) ==
  IF \E i \in DOMAIN autoCorrectDict : autoCorrectDict[i][1] = w
    THEN autoCorrectDict[CHOOSE i \in DOMAIN autoCorrectDict : autoCorrectDict[i][1] = w][2]
    ELSE IF w \in ObjectPrototypeNames THEN FunctionValue
    ELSE Null

\* word.replace(/(.)\1{2,}/g, '$1$1'): every run of 3+ equal characters becomes 2
RECURSIVE collapseRuns(_)
collapseRuns(w) ==
  IF Len(w) < 3 THEN w
  ELSE IF w[1] = w[2] /\ w[2] = w[3] THEN collapseRuns(Tail(w))
  ELSE <<w[1]>> \o collapseRuns(Tail(w))

\* String.prototype.indexOf of a two-character pattern, 0 when absent
indexOfPair(w, a, b) ==
  IF \E i \in 1..(Len(w) - 1) : w[i] = a /\ w[i + 1] = b
    THEN CHOOSE i \in 1..(Len(w) - 1) :
           /\ w[i] = a /\ w[i + 1] = b
           /\ \A j \in 1..(i - 1) : ~(w[j] = a /\ w[j + 1] = b)
    ELSE 0
\* String.prototype.replace of the first occurrence of the pair ab by cd
replacePair(w, a, b, c, d) ==
  LET i == indexOfPair(w, a, b)
  IN IF i = 0 THEN w ELSE [w EXCEPT ![i] = c, ![i + 1] = d]

swaps == << <<"e","i","i","e">>, <<"m","n","n","m">>, <<"n","m","m","n">> >>

\* lines 390-397: the first swap, in table order, whose candidate is a common word
RECURSIVE trySwaps(_, _)
trySwaps(corrected, k) ==
  IF k > Len(swaps) THEN corrected
  ELSE LET sw == swaps[k]
           candidate == replacePair(corrected, sw[1], sw[2], sw[3], sw[4])
       IN IF indexOfPair(corrected, sw[1], sw[2]) # 0 /\ inCommonWords(candidate)
            THEN candidate
            ELSE trySwaps(corrected, k + 1)

simpleCorrect(word) == trySwaps(collapseRuns(word), 1)

\* one row of the matrix of levenshteinDistance: row i from row i-1
\* (the tests on Len force the row built so far before the next cell is computed)
RECURSIVE levRow(_, _, _, _, _)
levRow(prev, bch, a, j, acc) ==
  IF Len(acc) # j \/ j > Len(a) THEN acc
  ELSE LET cell == IF bch = a[j] THEN prev[j]
                   ELSE Min(Min(prev[j] + 1, acc[j] + 1), prev[j + 1] + 1)
       IN levRow(prev, bch, a, j + 1, Append(acc, cell))

RECURSIVE levRows(_, _, _, _)
levRows(prev, a, b, i) ==
  IF Len(prev) # Len(a) + 1 \/ i > Len(b) THEN prev
  ELSE levRows(levRow(prev, b[i], a, 1, <<i>>), a, b, i + 1)

\* rows are sequences whose element j+1 is matrix[i][j]
levenshteinDistance(a, b) ==
  IF Len(a) = 0 THEN Len(b)
  ELSE IF Len(b) = 0 THEN Len(a)
  ELSE levRows([j \in 1..(Len(a) + 1) |-> j - 1], a, b, 1)[Len(a) + 1]

\* Math.ceil(word.length * 0.4)
maxDistanceFor(word) == (Len(word) * 4 + 9) \div 10

\* dictionary keys (yielding their correction) and then the common words
fuzzyCandidates ==
  autoCorrectDict \o [i \in DOMAIN commonWords |-> <<commonWords[i], commonWords[i]>>]

\* variant: of several candidates at the smallest distance the last one is kept
closestIndexLast(dists, maxDistance) ==
  LET eligible == {k \in DOMAIN dists : dists[k] <= maxDistance}
      closest == {k \in eligible : \A j \in eligible : dists[k] <= dists[j]}
  IN IF eligible = {} THEN 0
     ELSE CHOOSE k \in closest : \A j \in closest : k >= j

\* lines 451-473: the loops keep the first candidate, in iteration order, of
\* strictly smallest distance among those within maxDistance; Null when none is
closestIndex(dists, maxDistance) ==
  LET eligible == {k \in DOMAIN dists : dists[k] <= maxDistance}
      minDistance == CHOOSE d \in {dists[k] : k \in eligible} :
                       \A k \in eligible : d <= dists[k]
      closest == {k \in eligible : dists[k] = minDistance}
  IN IF eligible = {} THEN 0
     ELSE CHOOSE k \in closest : \A j \in closest : k <= j

findClosestWord(word) ==
  IF Len(word) < 3 THEN Null
  ELSE LET dists == [k \in DOMAIN fuzzyCandidates |->
                       levenshteinDistance(word, fuzzyCandidates[k][1])]
           k == closestIndex(dists, maxDistanceFor(word))
       IN IF k = 0 THEN Null ELSE fuzzyCandidates[k][2]

autoCorrect(word) ==
  LET lowerWord == [i \in DOMAIN word |-> toLowerCase(word[i])]
  IN IF dictLookup(lowerWord) # Null THEN dictLookup(lowerWord)
     ELSE IF inCommonWords(lowerWord) THEN lowerWord
     ELSE IF simpleCorrect(lowerWord) # lowerWord THEN simpleCorrect(lowerWord)
     ELSE LET fuzzyMatch == findClosestWord(lowerWord)
          IN IF fuzzyMatch # Null /\ fuzzyMatch # lowerWord THEN fuzzyMatch
             ELSE lowerWord

\* the words currentWord can hold within the bound, and autoCorrect of each
WordChars == {toLowerCase(l) : l \in LetterInputs \cup WordInputs}
AllWords == UNION {[1..k -> WordChars] : k \in 0..MaxWordLen}
\* (@@ makes the table an explicit function, computed once)
autoCorrected == [w \in AllWords |-> autoCorrect(w)] @@ <<>>

Result(w, s, ll, ts, act, cw) ==
  [currentWord |-> w, sentence |-> s, lastLetter |-> ll, lastLetterTimestamp |-> ts,
   action |-> act, correctedWord |-> cw]

\* variant: the first word of a sentence is not capitalised
appendWordPlain(s, corrected) ==
  IF Len(s) > 0 THEN s \o <<" ">> \o corrected ELSE corrected

\* lines 241-247
appendWord(s, corrected) ==
  IF Len(s) > 0 THEN s \o <<" ">> \o corrected
  ELSE <<toUpperCase(corrected[1])>> \o Tail(corrected)

\* variant: an ignored space also forgets the last accepted letter
addSpaceForgetting(w, s, ll, ts) ==
  IF Len(w) = 0 THEN Result(w, s, "", ts, "space_ignored", Null)
  ELSE LET corrected == autoCorrected[w]
       IN Result(<<>>, appendWord(s, corrected), "", ts, "word_completed",
                 IF corrected # w THEN corrected ELSE Null)

\* lines 224-263
addSpace(w, s, ll, ts) ==
  IF Len(w) = 0 THEN Result(w, s, ll, ts, "space_ignored", Null)
  ELSE LET corrected == autoCorrected[w]
       IN Result(<<>>, appendWord(s, corrected), "", ts, "word_completed",
                 IF corrected # w THEN corrected ELSE Null)

\* variant: the word is cut off but the space before it is kept
removeLastWordKeepSpace(s) ==
  IF \E i \in DOMAIN s : s[i] = " "
    THEN SubSeq(s, 1, CHOOSE i \in DOMAIN s :
                        s[i] = " " /\ \A j \in DOMAIN s : s[j] = " " => j <= i)
    ELSE <<>>

\* lines 282-284: sentence.split(' '), pop(), join(' ')
removeLastWord(s) ==
  IF \E i \in DOMAIN s : s[i] = " "
    THEN SubSeq(s, 1, (CHOOSE i \in DOMAIN s :
                         s[i] = " " /\ \A j \in DOMAIN s : s[j] = " " => j <= i) - 1)
    ELSE <<>>

\* variant: a non-empty word loses up to two characters at once
backspaceGreedy(w, s, ll, ts) ==
  IF Len(w) > 0 THEN Result(SubSeq(w, 1, Len(w) - 2), s, ll, ts, "letter_deleted", Null)
  ELSE IF Len(s) > 0 THEN Result(w, removeLastWord(s), ll, ts, "word_deleted", Null)
  ELSE Result(w, s, ll, ts, "backspace_ignored", Null)

\* lines 268-301
backspace(w, s, ll, ts) ==
  IF Len(w) > 0 THEN Result(SubSeq(w, 1, Len(w) - 1), s, ll, ts, "letter_deleted", Null)
  ELSE IF Len(s) > 0 THEN Result(w, removeLastWord(s), ll, ts, "word_deleted", Null)
  ELSE Result(w, s, ll, ts, "backspace_ignored", Null)

\* lines 306-318
clear(w, s, ll, ts) == Result(<<>>, <<>>, "", ts, "cleared", Null)

\* variant: clearWord drops the sentence as well
clearWordAll(w, s, ll, ts) == Result(<<>>, <<>>, "", ts, "word_cleared", Null)

\* lines 323-334
clearWord(w, s, ll, ts) == Result(<<>>, s, "", ts, "word_cleared", Null)

\* lines 494-497 (no return value)
setSentence(w, s, ll, ts, text) == Result(<<>>, text, ll, ts, Null, Null)

\* variant: the duplicate test compares without toUpperCase
isDuplicateCaseSensitive(letter, w, t, ts) ==
  letter = lastCharOf(w) /\ t - ts < DuplicateWindow

\* variant: the duplicate window is as short as letterHoldTime
isDuplicateShort(letter, w, t, ts) ==
  letter = toUpperCase(lastCharOf(w)) /\ t - ts < letterHoldTime

\* lines 144-149
isDuplicate(letter, w, t, ts) ==
  letter = toUpperCase(lastCharOf(w)) /\ t - ts < DuplicateWindow

\* line 160
isDebounced(letter, ll, t, ts) == letter = ll /\ t - ts < letterHoldTime

\* variant: the triple test looks for three letters already in the word
isTripleLate(lowerLetter, w) == sliceLast(w, 3) = <<lowerLetter, lowerLetter, lowerLetter>>

\* lines 188-189
isTriple(lowerLetter, w) == sliceLast(w, 2) = <<lowerLetter, lowerLetter>>

\* lines 139-219
addLetter(w, s, ll, ts, letter, t) ==
  IF isDuplicate(letter, w, t, ts) THEN Result(w, s, ll, ts, "duplicate_blocked", Null)
  ELSE IF isDebounced(letter, ll, t, ts) THEN Result(w, s, ll, ts, "debounced", Null)
  ELSE IF letter = "SPACE" THEN addSpace(w, s, ll, ts)
  ELSE IF letter \in {"BACKSPACE", "DELETE"} THEN backspace(w, s, ll, ts)
  ELSE IF letter = "CLEAR" THEN clear(w, s, ll, ts)
  ELSE IF isSingleLetter(letter)
    THEN IF isTriple(toLowerCase(letter), w)
           THEN Result(w, s, ll, ts, "triple_prevented", Null)
           ELSE Result(Append(w, toLowerCase(letter)), s, letter, t, "letter_added", Null)
  ELSE Result(w, s, ll, ts, "ignored", Null)

\* the state after a SentenceBuilder call with result r, within the bounds
Apply(r) ==
  /\ Len(r.currentWord) <= MaxWordLen
  /\ \/ Len(r.sentence) <= Max(MaxSentenceLen, Len(sentence))
     \/ r.sentence \in SentenceInputs
  /\ currentWord' = r.currentWord
  /\ sentence' = r.sentence
  /\ lastLetter' = r.lastLetter
  /\ lastLetterTimestamp' = r.lastLetterTimestamp
  /\ action' = r.action
  /\ correctedWord' = r.correctedWord

AddLetter(letter) ==
  /\ Apply(addLetter(currentWord, sentence, lastLetter, lastLetterTimestamp, letter, now))
  /\ UNCHANGED <<now, detectorVars, hookVars>>
AddSpace ==
  /\ Apply(addSpace(currentWord, sentence, lastLetter, lastLetterTimestamp))
  /\ UNCHANGED <<now, detectorVars, hookVars>>
Backspace ==
  /\ Apply(backspace(currentWord, sentence, lastLetter, lastLetterTimestamp))
  /\ UNCHANGED <<now, detectorVars, hookVars>>
Clear ==
  /\ Apply(clear(currentWord, sentence, lastLetter, lastLetterTimestamp))
  /\ UNCHANGED <<now, detectorVars, hookVars>>
ClearWord ==
  /\ Apply(clearWord(currentWord, sentence, lastLetter, lastLetterTimestamp))
  /\ UNCHANGED <<now, detectorVars, hookVars>>
SetSentence(text) ==
  /\ Apply(setSentence(currentWord, sentence, lastLetter, lastLetterTimestamp, text))
  /\ UNCHANGED <<now, detectorVars, hookVars>>

\* ---------------------------------------------------------- detection loop
\* what estimateHands and classifyGesture can make of a frame: no hand, a letter
\* or 'unknown', or an exception (caught by detectGesture, which returns null)
TickInputs == {"E", "unknown"}
TickOutcomes == TickInputs \cup {"nohand", "error", "nokeypoints", "malformed"}

\* the number of landmarks of the first hand in a frame of each kind: a hand
\* without keypoints, a hand cut short (5 points stand for any count up to 12),
\* and the full 21 of a frame the predicates decide
landmarkCount(frame) ==
  CASE frame = "nokeypoints" -> 0
    [] frame = "malformed" -> 5
    [] OTHER -> 21

\* the landmarks detectASLLetter reads before any test (isThumbAcrossPalm,
\* isThumbToSide, isThumbTouchingFingers): indexing past the array gives
\* undefined, and reading .x of it throws
RequiredPoints == {0, 2, 4, 5, 9, 12}

\* classifyGesture on a frame with a hand: 'none' without keypoints, "raise" for
\* the TypeError on a missing required landmark, else what the predicates decide
classifyGesture(frame) ==
  IF landmarkCount(frame) = 0 THEN "none"
  ELSE IF \E i \in RequiredPoints : i >= landmarkCount(frame) THEN "raise"
  ELSE frame
\* the callbacks there can be, numbered in the order they start
TickIds == 1..MaxTicks

\* useAIServices.js lines 30-77 (deaf or both): the detector is created and
\* sign detection enabled
InitializeAI ==
  /\ ~isInitialized
  /\ isInitialized' = TRUE
  /\ signDetectionEnabled' = TRUE
  /\ UNCHANGED <<now, detectorVars, builderVars, detectionIntervalRef, timers, due,
                 intervalsCreated, ticksFired, inflight>>

\* lines 85-156: setInterval; the ref is overwritten whatever it held
StartSignDetection ==
  /\ signDetectionEnabled
  /\ intervalsCreated < MaxIntervals
  /\ intervalsCreated' = intervalsCreated + 1
  /\ timers' = timers \cup {intervalsCreated + 1}
  /\ detectionIntervalRef' = intervalsCreated + 1
  /\ UNCHANGED <<now, detectorVars, builderVars, isInitialized, signDetectionEnabled,
                 due, ticksFired, inflight>>

\* clearInterval(ref); ref = null
stoppedTimers == timers \ {detectionIntervalRef}

\* lines 159-165
StopSignDetection ==
  /\ detectionIntervalRef # 0
  /\ timers' = stoppedTimers
  /\ due' = due \ {detectionIntervalRef}
  /\ detectionIntervalRef' = 0
  /\ UNCHANGED <<now, detectorVars, builderVars, isInitialized, signDetectionEnabled,
                 intervalsCreated, ticksFired, inflight>>

\* lines 257-267 with signLanguageDetector.cleanup (lines 1301-1309)
Cleanup ==
  /\ isInitialized
  /\ timers' = stoppedTimers
  /\ due' = due \ {detectionIntervalRef}
  /\ detectionIntervalRef' = 0
  /\ isInitialized' = FALSE
  /\ UNCHANGED <<now, detectorVars, builderVars, signDetectionEnabled,
                 intervalsCreated, ticksFired, inflight>>

\* DetectionInterval milliseconds pass: every active timer becomes due
IntervalElapses ==
  /\ now + DetectionInterval <= StartTime + MaxTicks * DetectionInterval
  /\ now' = now + DetectionInterval
  /\ due' = timers
  /\ UNCHANGED <<detectorVars, builderVars, isInitialized, signDetectionEnabled,
                 detectionIntervalRef, timers, intervalsCreated, ticksFired, inflight>>

\* the timer id fires: the callback calls detectGesture, which returns null at once
\* when the detector is not initialized and otherwise awaits estimateHands (the
\* video is taken to be ready; a frame that is not ends the tick the same way)
TickFire(id) ==
  /\ id \in due
  /\ ticksFired < MaxTicks
  /\ Cardinality(inflight) < MaxInFlight
  /\ due' = due \ {id}
  /\ ticksFired' = ticksFired + 1
  /\ inflight' = IF isInitialized THEN inflight \cup {ticksFired + 1} ELSE inflight
  /\ UNCHANGED <<now, detectorVars, builderVars, isInitialized, signDetectionEnabled,
                 detectionIntervalRef, timers, intervalsCreated>>

\* variant: a tick without a confirmed gesture passes the raw default letter on
letterForBuilderUnchecked(gesture) ==
  IF gesture \in {"none", "unknown_gesture"} THEN Null
  ELSE IF gesture = Null THEN "E"
  ELSE IF toUpperCase(gesture) \in Range(UpperCase) THEN toUpperCase(gesture)
  ELSE Null

\* the callback's test of result.gesture (useAIServices.js lines 102-106): the
\* letter handed to addLetter, or Null when the tick does not reach addLetter
letterForBuilder(gesture) ==
  IF gesture \in {Null, "none", "unknown_gesture"} THEN Null
  ELSE IF toUpperCase(gesture) \in Range(UpperCase) THEN toUpperCase(gesture)
  ELSE Null

\* estimateHands of tick tk resolves and the callback runs to its end:
\* classifyGesture, smoothGesture, then the callback's addLetter; an exception
\* of estimateHands or classifyGesture is caught by detectGesture, which then
\* returns null
TickComplete(tk, outcome) ==
  /\ tk \in inflight
  /\ inflight' = inflight \ {tk}
  /\ IF outcome \in {"nohand", "error"} \/ classifyGesture(outcome) = "raise"
       THEN UNCHANGED <<detectorVars, builderVars>>
       ELSE /\ SmoothCall(classifyGesture(outcome))
            /\ UNCHANGED <<feedVars, classifierVars>>
            /\ LET letter == letterForBuilder(smoothed')
               IN IF letter = Null
                    THEN UNCHANGED builderVars
                    ELSE Apply(addLetter(currentWord, sentence, lastLetter,
                                         lastLetterTimestamp, letter, now))
  /\ UNCHANGED <<now, isInitialized, signDetectionEnabled, detectionIntervalRef, timers,
                 due, intervalsCreated, ticksFired>>

\* --------------------------------------------------------------- classifier
Fingers == {"thumb", "index", "middle", "ring", "pinky"}

\* a finger as its base and tip keypoints in pixels (y grows downward); the tip
\* straight up, curled in, straight down, and sideways between the two thresholds
FingerBase == <<100, 100>>
fingerTo(dx, dy) == [base |-> FingerBase, tip |-> <<FingerBase[1] + dx, FingerBase[2] + dy>>]
Straight == fingerTo(0, -40)
Curled == fingerTo(0, -10)
Downward == fingerTo(0, 40)
Sideways == fingerTo(28, 0)

\* the geometric tests of detectASLLetter, each by the name of the method or of
\* the local that holds its outcome; a frame is described by the tests that hold
ShapeTests == {"isThumbAcrossPalm", "isThumbToSide", "isMShape", "fingersBehindOrNotTouching",
               "isThumbInFront", "isDShape", "isFShape", "areFingersTogether", "isQShape",
               "parallelAndHorizontal", "isPShape", "isKShape", "isLShape", "isNShape",
               "isCShape", "isOShape", "fingersCrossed", "isTShape", "indexBent"}

\* isPShape and isQShape need the index finger at 45 to 135 degrees, isKShape and
\* isGShape need it outside that band: no frame passes one of each
compatible(shapes) ==
  ~(shapes \cap {"isPShape", "isQShape"} # {}
      /\ shapes \cap {"isKShape", "parallelAndHorizontal"} # {})

RECURSIVE subsetsUpTo(_, _)
subsetsUpTo(S, k) ==
  IF k = 0 THEN {{}}
  ELSE LET smaller == subsetsUpTo(S, k - 1)
       IN smaller \cup {A \cup {x} : A \in smaller, x \in S}

NoHand == [present |-> FALSE, points |-> <<>>, shapes |-> {}]
\* hands with every finger straight or curled and up to MaxShapes tests holding
ShapeFrames ==
  {[present |-> TRUE, points |-> p, shapes |-> sh] :
     p \in [Fingers -> {Straight, Curled}],
     sh \in {s \in subsetsUpTo(ShapeTests, MaxShapes) : compatible(s)}}
\* hands with the fingers in every posture and no test holding
FingerFrames ==
  {[present |-> TRUE, points |-> p, shapes |-> {}] :
     p \in [Fingers -> {Straight, Curled, Downward, Sideways}]}

distanceSquared(p, q) == (p[1] - q[1]) * (p[1] - q[1]) + (p[2] - q[2]) * (p[2] - q[2])

\* the rule with a direction check: a finger other than the thumb must also
\* have its tip above its base
isFingerExtendedUpward(points, fingerName) ==
  LET tip == points[fingerName].tip
      base == points[fingerName].base
  IN IF fingerName = "thumb"
       THEN distanceSquared(tip, base) > ThumbThreshold * ThumbThreshold
       ELSE /\ distanceSquared(tip, base) > FingerThreshold * FingerThreshold
            /\ base[2] - tip[2] > 0

\* lines 1134-1192 for a hand with all its keypoints: distance > threshold is
\* compared on the squares; yDiff is computed and not used
isFingerExtended(points, fingerName) ==
  LET tip == points[fingerName].tip
      base == points[fingerName].base
  IN IF fingerName = "thumb"
       THEN distanceSquared(tip, base) > ThumbThreshold * ThumbThreshold
       ELSE distanceSquared(tip, base) > FingerThreshold * FingerThreshold

\* lines 1003, 1024: isEShape
isEShape(shapes) ==
  "isThumbAcrossPalm" \in shapes /\ "fingersBehindOrNotTouching" \in shapes

\* variant: the S test comes before the M and E tests
closedFistLetterSFirst(shapes) ==
  IF "isThumbToSide" \in shapes /\ "isThumbAcrossPalm" \notin shapes THEN "A"
  ELSE IF "isThumbInFront" \in shapes THEN "S"
  ELSE IF "isMShape" \in shapes THEN "M"
  ELSE IF isEShape(shapes) THEN "E"
  ELSE IF "isThumbToSide" \in shapes THEN "A"
  ELSE Null

\* lines 461-487: the block for allFingersClosed; Null when it returns nothing
closedFistLetter(shapes) ==
  IF "isThumbToSide" \in shapes /\ "isThumbAcrossPalm" \notin shapes THEN "A"
  ELSE IF "isMShape" \in shapes THEN "M"
  ELSE IF isEShape(shapes) THEN "E"
  ELSE IF "isThumbInFront" \in shapes THEN "S"
  ELSE IF "isThumbToSide" \in shapes THEN "A"
  ELSE Null

\* lines 489-620: the tests after the allFingersClosed block
openHandLetter(shapes, thumbExt, indexExt, middleExt, ringExt, pinkyExt) ==
  LET holds(t) == t \in shapes
  IN IF indexExt /\ ~middleExt /\ ~ringExt /\ ~pinkyExt /\ holds("isDShape") THEN "D"
     ELSE IF indexExt /\ middleExt /\ ringExt /\ pinkyExt /\ holds("isThumbAcrossPalm")
       THEN "B"
     ELSE IF middleExt /\ ringExt /\ pinkyExt /\ ~indexExt /\ holds("isFShape") THEN "F"
     \* isHShape is areFingersTogether(keypoints, 8, 12) (lines 865-868)
     ELSE IF indexExt /\ middleExt /\ ~ringExt /\ ~pinkyExt /\ holds("areFingersTogether")
       THEN "H"
     ELSE IF indexExt /\ thumbExt /\ ~middleExt /\ ~ringExt /\ ~pinkyExt /\ holds("isQShape")
       THEN "Q"
     \* isGShape is false unless indexExt and thumbExt (line 842)
     ELSE IF indexExt /\ thumbExt /\ ~middleExt /\ ~ringExt /\ ~pinkyExt
               /\ holds("parallelAndHorizontal")
       THEN "G"
     ELSE IF indexExt /\ middleExt /\ ~ringExt /\ ~pinkyExt /\ holds("isPShape") THEN "P"
     ELSE IF indexExt /\ middleExt /\ ~ringExt /\ ~pinkyExt /\ holds("isKShape") THEN "K"
     ELSE IF ~indexExt /\ ~middleExt /\ ~ringExt /\ pinkyExt /\ holds("isThumbAcrossPalm")
       THEN "I"
     ELSE IF indexExt /\ thumbExt /\ ~middleExt /\ ~ringExt /\ ~pinkyExt /\ holds("isLShape")
       THEN "L"
     ELSE IF ~indexExt /\ ~middleExt /\ ~ringExt /\ ~pinkyExt /\ holds("isNShape") THEN "N"
     ELSE IF holds("isCShape") THEN "C"
     ELSE IF holds("isOShape") THEN "O"
     \* isRShape is false unless indexExt and middleExt (line 961)
     ELSE IF indexExt /\ middleExt /\ holds("fingersCrossed") THEN "R"
     ELSE IF ~indexExt /\ ~middleExt /\ ~ringExt /\ ~pinkyExt /\ holds("isThumbInFront")
       THEN "S"
     ELSE IF holds("isTShape") THEN "T"
     ELSE IF indexExt /\ middleExt /\ ~ringExt /\ ~pinkyExt /\ holds("areFingersTogether")
       THEN "U"
     ELSE IF indexExt /\ middleExt /\ ~ringExt /\ ~pinkyExt /\ ~holds("areFingersTogether")
       THEN "V"
     ELSE IF indexExt /\ middleExt /\ ringExt /\ ~pinkyExt /\ ~thumbExt THEN "W"
     \* isXShape is false unless indexExt (line 1112)
     ELSE IF indexExt /\ holds("indexBent") THEN "X"
     ELSE IF thumbExt /\ ~indexExt /\ ~middleExt /\ ~ringExt /\ pinkyExt THEN "Y"
     ELSE IF indexExt /\ ~middleExt /\ ~ringExt /\ ~pinkyExt /\ ~thumbExt THEN "Z"
     ELSE "unknown"

\* lines 452-621
detectASLLetter(shapes, thumbExt, indexExt, middleExt, ringExt, pinkyExt) ==
  LET allFingersClosed == ~indexExt /\ ~middleExt /\ ~ringExt /\ ~pinkyExt
  IN IF allFingersClosed /\ closedFistLetter(shapes) # Null
       THEN closedFistLetter(shapes)
       ELSE openHandLetter(shapes, thumbExt, indexExt, middleExt, ringExt, pinkyExt)

\* lines 334-338: the five flags classifyGesture computes
extendedFingers(h) == {f \in Fingers : isFingerExtended(h.points, f)}

\* classifyGesture (lines 243-351, useMLHybrid being false) on the first hand h
\* of a frame with all 21 landmarks, or on a frame without a hand
gestureOf(h) ==
  IF ~h.present THEN "none"
  ELSE LET ext == extendedFingers(h)
       IN detectASLLetter(h.shapes, "thumb" \in ext, "index" \in ext, "middle" \in ext,
                          "ring" \in ext, "pinky" \in ext)

\* classifyGesture called on the frame
ClassifyGesture ==
  /\ extended' = IF hand.present THEN extendedFingers(hand) ELSE {}
  /\ rawGesture' = gestureOf(hand)
  /\ UNCHANGED <<now, hand, smootherVars, smoothed, feedVars, builderVars, hookVars>>

\* ------------------------------------------------------ specifications
\* the clock moves on by d milliseconds, at most n such steps from StartTime
AdvanceTime(d, n) ==
  /\ now + d <= StartTime + n * d
  /\ now' = now + d
  /\ UNCHANGED <<detectorVars, builderVars, hookVars>>

SmootherSteps == {50, gestureDebounceTime}
SmootherInputs == {"C", "E", "H", "unknown", "none"}

Init ==
  /\ now = StartTime
  /\ gestureConfidence = [g \in RawSymbols |-> 0]
  /\ lastGesture = "none"
  /\ lastGestureTimestamp = 0
  /\ smoothed = Null
  /\ feedSym = "none" /\ feedRun = 0 /\ feedFresh = TRUE /\ feedSpaced = TRUE
  /\ feedTime = 0
  /\ altLen = 0 /\ altPrev = Null /\ altStart = Null
  /\ heldFrom = 0 /\ heldFirst = 0
  /\ hand = NoHand /\ extended = {} /\ rawGesture = Null
  /\ currentWord = <<>>
  /\ sentence = <<>>
  /\ lastLetter = ""
  /\ lastLetterTimestamp = 0
  /\ action = Null
  /\ correctedWord = Null
  /\ isInitialized = FALSE
  /\ signDetectionEnabled = FALSE
  /\ detectionIntervalRef = 0
  /\ timers = {}
  /\ due = {}
  /\ intervalsCreated = 0
  /\ ticksFired = 0
  /\ inflight = {}

NextSmoother ==
  \/ \E c \in SmootherInputs : Feed(c)
  \/ \E d \in SmootherSteps : AdvanceTime(d, MaxTime)

SpecSmoother == Init /\ [][NextSmoother]_vars

AssemblerSteps == {DetectionInterval, letterHoldTime, DuplicateWindow}

NextAssembler ==
  \/ AddSpace
  \/ Backspace
  \/ Clear
  \/ ClearWord
  \/ \E text \in SentenceInputs : SetSentence(text)
  \/ \E letter \in LetterInputs \cup SpecialInputs : AddLetter(letter)
  \/ \E d \in AssemblerSteps : AdvanceTime(d, MaxTime)

SpecAssembler == Init /\ [][NextAssembler]_vars

\* words spelled letter by letter and edited, the clock standing still
NextWords ==
  \/ AddSpace
  \/ Backspace
  \/ Clear
  \/ ClearWord
  \/ \E text \in SentenceInputs : SetSentence(text)
  \/ \E letter \in WordInputs : AddLetter(letter)

SpecWords == Init /\ [][NextWords]_vars

\* the words autoCorrect and findClosestWord are called with: dictionary keys,
\* vocabulary words, words the swap pass repairs, words with several closest
\* candidates, words out of reach of every candidate, words shorter than 3
CorrectInputs == {
  <<"c","o","n","s","t","r","u","c","t","o","r">>, <<"f","r","e","i","n","d">>,
  <<"f","r","e","n","d">>, <<"f","r","i","e","n","d">>, <<"h","e","l","l","o">>,
  <<"h","e","l","o">>, <<"t","e","h">>, <<"t","h","e">>, <<"t","r","e","i","d">>,
  <<"t","r","e","i","s">>, <<"f","r","e","i","n","d","s">>, <<"t","t","e">>,
  <<"e","t">>, <<"e","e">>, <<"h","i">>, <<"x","y","z">>, <<"h","e","l","o","l">>,
  <<"v","i","d","o","e">>, <<"e","a","t">>, <<"t","e","a">>, <<"t","e","x","t">>,
  <<"t","h","i","e","r">>, <<"t","h","e","i","r">>, <<"r","e","c","e","i","v","e">>,
  <<"r","e","c","i","e","v","e">>, <<"w","o","k","r">>, <<"h","m","n">>,
  <<"h","e","h">>, <<"h","e","t">>, <<"t","h","n","a","k">>, <<"h","t","e">>,
  <<"h","e","l">>, <<"t","e","t">>, <<"t","e","e">>, <<"h","e">>,
  <<"t","h","a","n","k","k","s">>, <<"i","m">>, <<"i","l","l">>, <<"d","o","n","t">>,
  <<"p","l","s">>, <<"p","l","z">>, <<"s","r","y">>, <<"y","u","o">>, <<"c","n","a">> }

\* a word spelled into currentWord, nothing else done yet
InitCorrect ==
  /\ now = StartTime
  /\ gestureConfidence = [g \in RawSymbols |-> 0]
  /\ lastGesture = "none"
  /\ lastGestureTimestamp = 0
  /\ smoothed = Null
  /\ feedSym = "none" /\ feedRun = 0 /\ feedFresh = TRUE /\ feedSpaced = TRUE
  /\ feedTime = 0
  /\ altLen = 0 /\ altPrev = Null /\ altStart = Null
  /\ heldFrom = 0 /\ heldFirst = 0
  /\ hand = NoHand /\ extended = {} /\ rawGesture = Null
  /\ currentWord \in CorrectInputs
  /\ sentence = <<>>
  /\ lastLetter = toUpperCase(lastCharOf(currentWord))
  /\ lastLetterTimestamp = StartTime
  /\ action = "letter_added"
  /\ correctedWord = Null
  /\ isInitialized = FALSE
  /\ signDetectionEnabled = FALSE
  /\ detectionIntervalRef = 0
  /\ timers = {}
  /\ due = {}
  /\ intervalsCreated = 0
  /\ ticksFired = 0
  /\ inflight = {}

\* sentenceBuilder.autoCorrect(currentWord) called on its own: correctedWord holds
\* the value returned and action the name of the method called
AutoCorrectCall ==
  /\ correctedWord' = autoCorrect(currentWord)
  /\ action' = "autoCorrect"
  /\ UNCHANGED <<now, detectorVars, builderState, hookVars>>

\* sentenceBuilder.findClosestWord(currentWord) called on its own
FindClosestWordCall ==
  /\ correctedWord' = findClosestWord(currentWord)
  /\ action' = "findClosestWord"
  /\ UNCHANGED <<now, detectorVars, builderState, hookVars>>

NextCorrect == AutoCorrectCall \/ FindClosestWordCall

SpecCorrect == InitCorrect /\ [][NextCorrect]_vars

\* a frame has arrived from estimateHands and is not classified yet
InitClassifier ==
  /\ now = StartTime
  /\ gestureConfidence = [g \in RawSymbols |-> 0]
  /\ lastGesture = "none"
  /\ lastGestureTimestamp = 0
  /\ smoothed = Null
  /\ feedSym = "none" /\ feedRun = 0 /\ feedFresh = TRUE /\ feedSpaced = TRUE
  /\ feedTime = 0
  /\ altLen = 0 /\ altPrev = Null /\ altStart = Null
  /\ heldFrom = 0 /\ heldFirst = 0
  /\ hand \in {NoHand} \cup ShapeFrames \cup FingerFrames
  /\ extended = {} /\ rawGesture = Null
  /\ currentWord = <<>>
  /\ sentence = <<>>
  /\ lastLetter = ""
  /\ lastLetterTimestamp = 0
  /\ action = Null
  /\ correctedWord = Null
  /\ isInitialized = FALSE
  /\ signDetectionEnabled = FALSE
  /\ detectionIntervalRef = 0
  /\ timers = {}
  /\ due = {}
  /\ intervalsCreated = 0
  /\ ticksFired = 0
  /\ inflight = {}

NextClassifier == ClassifyGesture

SpecClassifier == InitClassifier /\ [][NextClassifier]_vars

\* a hand comes into the frame in one posture and stays in it
HeldInputs == {"C", "E", "H"}
handWith(straight, shapes) ==
  [present |-> TRUE,
   points |-> [f \in Fingers |-> IF f \in straight THEN Straight ELSE Curled],
   shapes |-> shapes]
HeldFrames ==
  {handWith({}, {"isCShape"}),
   handWith({}, {"isThumbAcrossPalm", "fingersBehindOrNotTouching"}),
   handWith({"index", "middle"}, {"areFingersTogether"})}

HoldHand(h) ==
  /\ ~hand.present
  /\ hand' = h
  /\ heldFrom' = Len(currentWord)
  /\ heldFirst' = 0
  /\ UNCHANGED <<now, smootherVars, smoothed, feedSym, feedRun, feedFresh, feedSpaced,
                 feedTime, altVars, extended, rawGesture, builderVars, hookVars>>

\* detectGesture on the held hand, some milliseconds after the latest step:
\* classifyGesture, then smoothGesture at the time of the call
detectHeld(c, d) ==
  LET r == smoothGesture(gestureConfidence, lastGesture, lastGestureTimestamp, c, now + d)
  IN /\ now' = now + d
     /\ extended' = extendedFingers(hand)
     /\ rawGesture' = c
     /\ gestureConfidence' = r.conf
     /\ lastGesture' = r.last
     /\ lastGestureTimestamp' = r.ts
     /\ smoothed' = r.ret
     /\ feedSym' = c
     /\ feedRun' = IF c = feedSym THEN feedRun + 1 ELSE 1
     /\ feedFresh' = (feedFresh /\ (feedRun = 0 \/ c = feedSym))
     /\ feedSpaced' = (feedSpaced /\ (feedRun = 0 \/ now + d - feedTime >= gestureDebounceTime))
     /\ feedTime' = now + d
     /\ UNCHANGED <<hand, altVars>>

DetectHeld ==
  /\ hand.present
  /\ \E c \in {gestureOf(hand)}, d \in SmootherSteps :
       gestureConfidence[c] < MaxConf + MaxHold /\ detectHeld(c, d)
  /\ UNCHANGED <<holdVars, builderVars, hookVars>>

\* one tick of the detection interval while the hand is held: detectGesture, then
\* the callback hands a letter to addLetter
LoopTick ==
  /\ hand.present
  /\ \E c \in {gestureOf(hand)} :
       gestureConfidence[c] < MaxLoop /\ detectHeld(c, DetectionInterval)
  /\ LET letter == letterForBuilder(smoothed')
     IN IF letter = Null
          THEN UNCHANGED <<builderVars, holdVars>>
          ELSE /\ Apply(addLetter(currentWord, sentence, lastLetter, lastLetterTimestamp,
                                  letter, now + DetectionInterval))
               /\ heldFirst' = IF heldFirst = 0 /\ action' = "letter_added"
                                 THEN now + DetectionInterval ELSE heldFirst
               /\ heldFrom' = heldFrom
  /\ UNCHANGED hookVars

\* letters spelled and deleted at any times, then a hand that is held while the
\* detection interval ticks
NextLoop ==
  \/ \E letter \in LetterInputs : ~hand.present /\ AddLetter(letter)
  \/ ~hand.present /\ Backspace
  \/ \E d \in AssemblerSteps : ~hand.present /\ AdvanceTime(d, MaxTime)
  \/ \E h \in HeldFrames : HoldHand(h)
  \/ LoopTick

SpecLoop == Init /\ [][NextLoop]_vars

\* any ticks, then a hand that is held; the detection interval keeps firing
NextHeld ==
  \/ \E c \in HeldInputs : ~hand.present /\ Feed(c)
  \/ \E d \in SmootherSteps : ~hand.present /\ AdvanceTime(d, MaxTime)
  \/ \E h \in HeldFrames : HoldHand(h)
  \/ DetectHeld

\* any calls, then a stretch of calls whose inputs alternate
NextFlicker ==
  \/ \E c \in SmootherInputs : altLen = 0 /\ Feed(c)
  \/ \E d \in SmootherSteps : AdvanceTime(d, MaxTime)
  \/ \E c \in SmootherInputs : Alternate(c)

SpecFlicker == Init /\ [][NextFlicker]_vars

SpecHeld == Init /\ [][NextHeld]_vars /\ WF_vars(DetectHeld)

Next ==
  \/ InitializeAI
  \/ StartSignDetection
  \/ StopSignDetection
  \/ Cleanup
  \/ \E id \in 1..MaxIntervals : TickFire(id)
  \/ \E tk \in TickIds, outcome \in TickOutcomes : TickComplete(tk, outcome)
  \/ AddSpace
  \/ Backspace
  \/ Clear
  \/ ClearWord
  \/ IntervalElapses

Spec == Init /\ [][Next]_vars

\* ------------------------------------------------------------------ claims
\* a step that is a smoothGesture call with input c
Fed(c) == feedSym' = c /\ <<feedSym, feedRun>>' # <<feedSym, feedRun>>

C2_Claim ==
  (feedFresh /\ feedSpaced /\ feedSym \in Letters /\ feedRun >= 1)
    => /\ feedRun < minConfidenceFrames => smoothed = Null
       /\ feedRun = minConfidenceFrames => (smoothed = feedSym /\ lastGesture = feedSym)

\* C3: with lastGesture = 'C', the minConfidenceFrames-th consecutive 'E' tick
\* returns 'E' and sets lastGesture = 'E', whatever the time since the last change.
C3_Claim ==
  [][(lastGesture = "C" /\ Fed("E") /\ feedRun' = minConfidenceFrames)
       => (smoothed' = "E" /\ lastGesture' = "E")]_vars

\* the letters addLetter is given in upper case, as the detection loop passes them
UpperInputs == LetterInputs \cap Range(UpperCase)

\* the latest accepted letter l was accepted at t1 = lastLetterTimestamp by the
\* previous call, and this step is addLetter(l) at a time t2, t1 < t2 < t1 + hold
SecondCallInHoldTime(l) ==
  /\ action = "letter_added" /\ lastLetter = l
  /\ lastLetterTimestamp < now /\ now < lastLetterTimestamp + letterHoldTime
  /\ AddLetter(l)

\* C4 (as stated): addLetter('A') accepted at t1 and called next at t2 with
\* t1 < t2 < t1 + letterHoldTime: the second call returns 'debounced' and leaves
\* currentWord unchanged.
C4_Original ==
  [][\A l \in UpperInputs :
       SecondCallInHoldTime(l) => (action' = "debounced" /\ currentWord' = currentWord)]_vars

\* C4 (amended): under the same conditions the second call is rejected by the
\* duplicate guard, which runs before the debounce guard: it returns
\* 'duplicate_blocked' and leaves currentWord (and the rest of the state) unchanged.
C4_DuplicateBlocked ==
  [][\A l \in UpperInputs :
       SecondCallInHoldTime(l) => (action' = "duplicate_blocked" /\ UNCHANGED builderState)]_vars

\* a repeated letter was rejected inside the hold time of its acceptance
C4_Witness ==
  /\ action = "duplicate_blocked" /\ lastLetter \in UpperInputs
  /\ lastCharOf(currentWord) = toLowerCase(lastLetter)
  /\ lastLetterTimestamp < now /\ now < lastLetterTimestamp + letterHoldTime

hasTripleRun(w) == \E i \in 1..(Len(w) - 2) : w[i] = w[i + 1] /\ w[i + 1] = w[i + 2]

lastWordOf(s) ==
  LET start == IF \E i \in DOMAIN s : s[i] = " "
                 THEN (CHOOSE i \in DOMAIN s :
                         s[i] = " " /\ \A j \in DOMAIN s : s[j] = " " => j <= i) + 1
                 ELSE 1
  IN [k \in 1..(Len(s) - start + 1) |-> toLowerCase(s[start + k - 1])]

\* the previous call was an addSpace that completed a word autoCorrect left
\* unchanged, and this step is backspace
BackspaceAfterSpace ==
  /\ action = "word_completed" /\ correctedWord = Null
  /\ Backspace

\* C6 (as stated): addSpace on a non-empty word that autoCorrect leaves unchanged,
\* followed immediately by backspace, returns currentWord to the pre-space word.
C6_Original ==
  [][BackspaceAfterSpace => currentWord' = lastWordOf(sentence)]_vars

\* C6 (amended): that backspace does not restore the word: it returns
\* 'word_deleted', leaves currentWord empty and deletes the completed word (with
\* the space before it) from the sentence.
C6_WordDeleted ==
  [][BackspaceAfterSpace =>
       /\ action' = "word_deleted"
       /\ currentWord' = <<>>
       /\ LET n == Len(lastWordOf(sentence))
          IN sentence' = SubSeq(sentence, 1, IF Len(sentence) > n THEN Len(sentence) - n - 1 ELSE 0)]_vars

\* a completed second word was deleted again, leaving the first
C6_Witness ==
  action = "word_deleted" /\ currentWord = <<>> /\ sentence = <<"E">>

\* a step in which a detection tick runs to its end
TickDone == inflight' # inflight /\ inflight' \subseteq inflight

C8_Claim ==
  [][(detectionIntervalRef = 0 /\ timers = {} /\ TickDone)
       => UNCHANGED <<smootherVars, builderState>>]_vars

\* C9: in a session with one timer, at most one detection tick is in flight.
C9_Claim ==
  intervalsCreated <= 1 => Cardinality(inflight) <= 1

RejectingTags == {"duplicate_blocked", "debounced", "triple_prevented", "ignored",
                  "space_ignored", "backspace_ignored"}

\* C10: a SentenceBuilder call that returns a rejecting tag leaves currentWord,
\* sentence, lastLetter and lastLetterTimestamp as they were; addSpace on an empty
\* currentWord returns 'space_ignored'.
C10_RejectUnchanged ==
  [][/\ action' \in RejectingTags => UNCHANGED builderState
     /\ (currentWord = <<>> /\ AddSpace) => action' = "space_ignored"]_vars

\* addSpace was ignored on an empty word with a sentence already there
C10_Witness ==
  action = "space_ignored" /\ currentWord = <<>> /\ Len(sentence) > 0 /\ lastLetter # ""

isWithoutLastWord(s2, s) ==
  LET n == Len(s2)
  IN /\ n < Len(s)
     /\ s2 = SubSeq(s, 1, n)
     /\ \A i \in (n + 2)..Len(s) : s[i] # " "
     /\ IF \E i \in DOMAIN s : s[i] = " " THEN s[n + 1] = " " ELSE n = 0

\* C12: backspace removes exactly the last character of a non-empty currentWord
\* ('letter_deleted', sentence untouched); otherwise exactly the last
\* space-delimited word of a non-empty sentence ('word_deleted'); otherwise
\* nothing ('backspace_ignored'). On "Hi there" it leaves "Hi".
C12_Backspace ==
  [][Backspace =>
       IF currentWord # <<>>
         THEN /\ action' = "letter_deleted"
              /\ currentWord' = SubSeq(currentWord, 1, Len(currentWord) - 1)
              /\ sentence' = sentence
       ELSE IF sentence # <<>>
         THEN /\ action' = "word_deleted"
              /\ currentWord' = <<>>
              /\ isWithoutLastWord(sentence', sentence)
              /\ sentence = <<"H","i"," ","t","h","e","r","e">> => sentence' = <<"H","i">>
       ELSE action' = "backspace_ignored" /\ UNCHANGED builderState]_vars

\* the last word of "Hi there" was deleted
C12_Witness ==
  action = "word_deleted" /\ currentWord = <<>> /\ sentence = <<"H","i">>

\* C13: the sentence never has a leading space, a trailing space or two adjacent
\* spaces.
C13_Claim ==
  /\ sentence # <<>> => (sentence[1] # " " /\ sentence[Len(sentence)] # " ")
  /\ \A i \in 1..(Len(sentence) - 1) : ~(sentence[i] = " " /\ sentence[i + 1] = " ")

\* C14: currentWord consists of lower-case letters a-z only: it grows only by
\* addLetter appending the lower-case form of the single letter it was given.
C14_LowerCase ==
  [][/\ \A i \in DOMAIN currentWord' : currentWord'[i] \in Range(LowerCase)
     /\ Len(currentWord') > Len(currentWord) =>
          /\ action' = "letter_added"
          /\ isSingleLetter(lastLetter')
          /\ \E l \in LetterInputs : l = lastLetter' /\ AddLetter(l)
          /\ currentWord' = currentWord \o <<LowerCase[IndexIn(toUpperCase(lastLetter'), UpperCase)]>>]_vars

\* an upper-case letter was appended in lower case after another letter
C14_Witness ==
  /\ action = "letter_added" /\ lastLetter = "E"
  /\ Len(currentWord) = 2 /\ currentWord[2] = "e"

\* C15 (as stated): after a smoothGesture call with input c every other symbol
\* whose counter was positive has max(0, old - DecayAmount), the counter of c has
\* grown by exactly 1, and every counter is >= 0.
C15_Original ==
  [][\A c \in RawSymbols :
       Fed(c) =>
         /\ gestureConfidence'[c] = gestureConfidence[c] + 1
         /\ \A s \in RawSymbols \ {c} :
              gestureConfidence[s] > 0 =>
                gestureConfidence'[s] = Max(0, gestureConfidence[s] - DecayAmount)
         /\ \A s \in RawSymbols : gestureConfidence'[s] >= 0]_vars

\* C15 (amended): the same, except that when c differs from lastGesture and both
\* are in one confusable group the counter of lastGesture is reset to 0 whatever
\* it was; symbols at 0 stay at 0.
C15_Decay ==
  [][\A c \in RawSymbols :
       Fed(c) =>
         /\ gestureConfidence'[c] = gestureConfidence[c] + 1
         /\ \A s \in RawSymbols \ {c} :
              gestureConfidence'[s] =
                IF s = lastGesture /\ isSimilarSwitch(c, lastGesture) THEN 0
                ELSE Max(0, gestureConfidence[s] - DecayAmount)
         /\ \A s \in RawSymbols : gestureConfidence'[s] >= 0]_vars

\* a counter of 3 decayed to 1 on a switch to a symbol outside its groups
C15_Witness ==
  /\ lastGesture = "C" /\ feedSym = "H" /\ feedRun = 1
  /\ gestureConfidence["C"] = 1 /\ gestureConfidence["H"] = 1

\* C16: a detection tick on which no hand is detected goes through smoothGesture
\* as the symbol 'none': the counter of 'none' grows by 1 and every other counter
\* decays by DecayAmount (down to 0).
C16_Claim ==
  [][\A tk \in TickIds :
       TickComplete(tk, "nohand") =>
         /\ gestureConfidence'["none"] = gestureConfidence["none"] + 1
         /\ \A s \in RawSymbols \ {"none"} :
              gestureConfidence'[s] = Max(0, gestureConfidence[s] - DecayAmount)]_vars

\* C17: a session that starts (the hook initializes the detector, after an
\* earlier session was cleaned up or for the first time) begins with empty
\* currentWord and sentence, all confidence counters 0 and no confirmed gesture.
C17_Claim ==
  [][(~isInitialized /\ isInitialized') =>
       /\ currentWord' = <<>> /\ sentence' = <<>>
       /\ \A s \in RawSymbols : gestureConfidence'[s] = 0
       /\ lastGesture' = "none"]_vars

\* C18: a frame whose first hand has fewer than 21 landmarks is classified as
\* 'none' or 'unknown' without an exception, and the tick feeds that symbol to
\* smoothGesture like any other.
C18_Claim ==
  [][\A tk \in TickIds, frame \in {"nokeypoints", "malformed"} :
       TickComplete(tk, frame) =>
         /\ classifyGesture(frame) \in {"none", "unknown"}
         /\ gestureConfidence'[classifyGesture(frame)] =
              gestureConfidence[classifyGesture(frame)] + 1]_vars

\* C19: clearWord empties currentWord, leaves sentence as it was and returns
\* 'word_cleared'; clear empties both currentWord and sentence and returns
\* 'cleared'.
C19_ClearFrame ==
  [][/\ ClearWord =>
          currentWord' = <<>> /\ sentence' = sentence /\ action' = "word_cleared"
     /\ Clear =>
          currentWord' = <<>> /\ sentence' = <<>> /\ action' = "cleared"
     /\ action' = "word_cleared" => (currentWord' = <<>> /\ sentence' = sentence)
     /\ action' = "cleared" => (currentWord' = <<>> /\ sentence' = <<>>)]_vars

\* clearWord has run on a sentence that is not empty
C19_Witness ==
  action = "word_cleared" /\ currentWord = <<>> /\ sentence # <<>> /\ lastLetter = ""

\* C20: on a smoothGesture call whose input c differs from lastGesture, whose
\* counter of c (this call's increment included) has reached minConfidenceFrames
\* and where c and lastGesture share no group: within gestureDebounceTime of the
\* last change the call returns the old lastGesture and leaves lastGesture and
\* lastGestureTimestamp alone, and otherwise it sets lastGesture to c and
\* lastGestureTimestamp to the time of the call and returns c. lastGesture
\* changes only to the input of the call.
C20_Claim ==
  [][/\ \A c \in RawSymbols :
          (/\ Fed(c) /\ c # lastGesture
           /\ gestureConfidence'[c] >= minConfidenceFrames
           /\ ~isSimilarSwitch(c, lastGesture)) =>
             IF now - lastGestureTimestamp < gestureDebounceTime
               THEN /\ smoothed' = lastGesture
                    /\ UNCHANGED <<lastGesture, lastGestureTimestamp>>
               ELSE /\ lastGesture' = c /\ lastGestureTimestamp' = now
                    /\ smoothed' = c
     /\ lastGesture' # lastGesture => lastGesture' = feedSym']_vars


\* C21: after a smoothGesture call whose input c differs from lastGesture, the
\* counter of lastGesture is 0 when c and lastGesture share a confusable group,
\* whatever it was before, and otherwise it is its old value less DecayAmount
\* (not below 0).
C21_HardReset ==
  [][\A c \in RawSymbols :
       (Fed(c) /\ c # lastGesture) =>
         gestureConfidence'[lastGesture] =
           IF isSimilarSwitch(c, lastGesture) THEN 0
           ELSE Max(0, gestureConfidence[lastGesture] - DecayAmount)]_vars

\* the confirmed 'C' has lost its counter on the first 'E' after it
C21_Witness ==
  /\ lastGesture = "C" /\ feedSym = "E" /\ feedRun = 1
  /\ gestureConfidence["C"] = 0 /\ gestureConfidence["E"] = 1


\* the keys of the exact-misspelling dictionary and their corrections
isDictKey(w) == \E i \in DOMAIN autoCorrectDict : autoCorrectDict[i][1] = w
correctionOf(w) ==
  autoCorrectDict[CHOOSE i \in DOMAIN autoCorrectDict : autoCorrectDict[i][1] = w][2]

\* the stages in the order the claim gives them
byPriority(w) ==
  IF isDictKey(w) THEN correctionOf(w)
  ELSE IF inCommonWords(w) THEN w
  ELSE IF simpleCorrect(w) # w THEN simpleCorrect(w)
  ELSE IF findClosestWord(w) # Null THEN findClosestWord(w)
  ELSE w

\* C22: autoCorrect(w) is the mapped correction when w is a key of the
\* dictionary, else w itself when w is a vocabulary word, else the result of the
\* pattern pass when that differs from w, else the fuzzy match when there is
\* one, else w; so a vocabulary word that is no dictionary key is returned as
\* it is.
C22_Claim ==
  [][action' = "autoCorrect" =>
       /\ byPriority(currentWord) = correctedWord'
       /\ (inCommonWords(currentWord) /\ ~isDictKey(currentWord)) =>
            currentWord = correctedWord']_vars


\* ceil(0.4 * n) for a length n
fortyPercentUp(n) == CHOOSE m \in 0..n : 10 * m >= 4 * n /\ 10 * (m - 1) < 4 * n

\* C23: findClosestWord(w) returns null when w has fewer than 3 characters or no
\* candidate is within ceil(0.4 * Len(w)) edits; otherwise it returns the word
\* of the candidate at the smallest Levenshtein distance (the correction of a
\* dictionary key, or the vocabulary word), and of several at that distance the
\* first in iteration order, dictionary keys coming before the vocabulary.
C23_Closest ==
  [][action' = "findClosestWord" =>
       LET w == currentWord
           dist == [k \in DOMAIN fuzzyCandidates |->
                      levenshteinDistance(w, fuzzyCandidates[k][1])] @@ <<>>
           within == {k \in DOMAIN fuzzyCandidates : dist[k] <= fortyPercentUp(Len(w))}
       IN IF Len(w) < 3 \/ within = {}
            THEN correctedWord' = Null
            ELSE \E k \in within :
                   /\ \A j \in within : dist[k] <= dist[j]
                   /\ \A j \in within : j < k => dist[j] > dist[k]
                   /\ fuzzyCandidates[k][2] = correctedWord']_vars

\* findClosestWord("freind") has returned "friend"
C23_Witness ==
  /\ action = "findClosestWord"
  /\ currentWord = <<"f","r","e","i","n","d">>
  /\ <<"f","r","i","e","n","d">> = correctedWord


\* the tests of detectASLLetter from top to bottom, each with its letter, for the
\* tests sh that hold and the fingers ext found extended
orderedPredicates(sh, ext) ==
  LET up(f) == f \in ext
      holds(t) == t \in sh
      fist == ~up("index") /\ ~up("middle") /\ ~up("ring") /\ ~up("pinky")
      twoUp == up("index") /\ up("middle") /\ ~up("ring") /\ ~up("pinky")
      indexOnly == up("index") /\ ~up("middle") /\ ~up("ring") /\ ~up("pinky")
  IN << <<"A", fist /\ holds("isThumbToSide") /\ ~holds("isThumbAcrossPalm")>>,
        <<"M", fist /\ holds("isMShape")>>,
        <<"E", fist /\ holds("isThumbAcrossPalm") /\ holds("fingersBehindOrNotTouching")>>,
        <<"S", fist /\ holds("isThumbInFront")>>,
        <<"A", fist /\ holds("isThumbToSide")>>,
        <<"D", indexOnly /\ holds("isDShape")>>,
        <<"B", up("index") /\ up("middle") /\ up("ring") /\ up("pinky")
                 /\ holds("isThumbAcrossPalm")>>,
        <<"F", ~up("index") /\ up("middle") /\ up("ring") /\ up("pinky") /\ holds("isFShape")>>,
        <<"H", twoUp /\ holds("areFingersTogether")>>,
        <<"Q", indexOnly /\ up("thumb") /\ holds("isQShape")>>,
        <<"G", indexOnly /\ up("thumb") /\ holds("parallelAndHorizontal")>>,
        <<"P", twoUp /\ holds("isPShape")>>,
        <<"K", twoUp /\ holds("isKShape")>>,
        <<"I", ~up("index") /\ ~up("middle") /\ ~up("ring") /\ up("pinky")
                 /\ holds("isThumbAcrossPalm")>>,
        <<"L", indexOnly /\ up("thumb") /\ holds("isLShape")>>,
        <<"N", fist /\ holds("isNShape")>>,
        <<"C", holds("isCShape")>>,
        <<"O", holds("isOShape")>>,
        <<"R", up("index") /\ up("middle") /\ holds("fingersCrossed")>>,
        <<"S", fist /\ holds("isThumbInFront")>>,
        <<"T", holds("isTShape")>>,
        <<"U", twoUp /\ holds("areFingersTogether")>>,
        <<"V", twoUp /\ ~holds("areFingersTogether")>>,
        <<"W", up("index") /\ up("middle") /\ up("ring") /\ ~up("pinky") /\ ~up("thumb")>>,
        <<"X", up("index") /\ holds("indexBent")>>,
        <<"Y", up("thumb") /\ ~up("index") /\ ~up("middle") /\ ~up("ring") /\ up("pinky")>>,
        <<"Z", indexOnly /\ ~up("thumb")>> >>

\* the step on which classifyGesture returns
Classified == rawGesture = Null /\ rawGesture' # Null

\* C24: classifyGesture returns 'none' for a frame without a hand; for a hand the
\* result is the letter of the first test from the top that holds, and
\* 'unknown' exactly when none holds. With index and middle extended and ring
\* and pinky closed the result is not P, K, U or V when H's test holds, not K, U
\* or V when P's holds, and not U or V when K's holds; with index and thumb
\* extended and the other three closed it is not G or L when Q's test holds and
\* not L when G's holds.
C24_FirstMatch ==
  [][Classified =>
       IF ~hand.present THEN rawGesture' = "none"
       ELSE LET list == orderedPredicates(hand.shapes, extended')
                first == {i \in DOMAIN list : list[i][2] /\ \A j \in 1..(i - 1) : ~list[j][2]}
                twoUp == extended' \ {"thumb"} = {"index", "middle"}
                indexThumb == extended' = {"index", "thumb"}
                holds(t) == t \in hand.shapes
            IN /\ \A i \in first : rawGesture' = list[i][1]
               /\ (first = {}) <=> (rawGesture' = "unknown")
               /\ (twoUp /\ holds("areFingersTogether")) => rawGesture' \notin {"P", "K", "U", "V"}
               /\ (twoUp /\ holds("isPShape")) => rawGesture' \notin {"K", "U", "V"}
               /\ (twoUp /\ holds("isKShape")) => rawGesture' \notin {"U", "V"}
               /\ (indexThumb /\ holds("isQShape")) => rawGesture' \notin {"G", "L"}
               /\ (indexThumb /\ holds("parallelAndHorizontal")) => rawGesture' # "L"]_vars

\* H was returned for a hand that passes the tests of H and of P
C24_Witness ==
  /\ hand.present /\ hand.shapes = {"areFingersTogether", "isPShape"}
  /\ extended = {"index", "middle"} /\ rawGesture = "H"


\* the results classifyGesture has on the hands of the model
ReturnedLetters == {gestureOf(h) : h \in ShapeFrames \cup FingerFrames}

\* C25: every letter A-Z has a test in detectASLLetter, and for each letter some
\* combination of finger flags and test outcomes makes detectASLLetter return it.
C25_Claim ==
  rawGesture # Null => \A letter \in Range(UpperCase) : letter \in ReturnedLetters


\* C26: the thumb is found extended iff its tip is more than ThumbThreshold from
\* its base; any other finger iff its tip is more than FingerThreshold from its
\* base and above it, so a finger pointing down at that distance is not extended.
C26_Claim ==
  [][(Classified /\ hand.present) =>
       \A f \in Fingers :
         f \in extended' <=> isFingerExtendedUpward(hand.points, f)]_vars


\* C27: once a hand is held so that classifyGesture gives the same letter c on
\* every tick, and the ticks keep coming as time goes on, smoothGesture
\* eventually returns c and from then on returns c on every tick, with
\* lastGesture = c.
C27_Live ==
  hand.present ~> [](smoothed = gestureOf(hand) /\ lastGesture = gestureOf(hand))

\* a held 'H' was confirmed in place of 'C' once the debounce time had passed
C27_Witness ==
  /\ hand.present /\ rawGesture = "H" /\ smoothed = "H" /\ lastGesture = "H"
  /\ lastGestureTimestamp > StartTime
  /\ gestureConfidence["H"] > MaxConf


\* C28: from a state in which no symbol other than lastGesture has a positive
\* counter, inputs that strictly alternate between two different symbols
\* (a,b,a,b,...) never change lastGesture, and neither of the two ever has
\* minConfidenceFrames on its counter when it is fed.
C28_Flicker ==
  altLen >= 1 =>
    /\ lastGesture = altStart
    /\ \A s \in RawSymbols \ {lastGesture} : gestureConfidence[s] < minConfidenceFrames

\* 'E' and 'H' have alternated for MaxAlt inputs and 'C' is still confirmed
C28_Witness ==
  /\ altLen = MaxAlt /\ altStart = "C" /\ lastGesture = "C"
  /\ feedSym = "H" /\ altPrev = "E"
  /\ gestureConfidence["H"] = 1 /\ gestureConfidence["E"] = 0


\* a step that is a tick of the detection loop on the held hand
HeldTick == hand.present /\ feedTime' # feedTime

\* the tick is the first on which smoothGesture returns the held letter
FirstConfirmed == smoothed' = gestureOf(hand) /\ smoothed # gestureOf(hand)

\* the tick appends the second or a later copy: not before DuplicateWindow has
\* passed since the first was accepted, and never a third
SecondCopyLate ==
  /\ (currentWord' # currentWord /\ heldFirst # 0) => now' - heldFirst >= DuplicateWindow
  /\ Len(currentWord') - heldFrom <= 2

\* C29 (as stated): while one letter is held through the DetectionInterval loop
\* and nothing else touches the builder, the letter is appended on the first
\* confirmed tick, a second time only once DuplicateWindow has passed since the
\* first acceptance, and never a third time.
C29_Original ==
  [][HeldTick =>
       /\ FirstConfirmed =>
            currentWord' = Append(currentWord, toLowerCase(gestureOf(hand)))
       /\ SecondCopyLate]_vars

\* C29 (amended): the same, the letter being appended on the first confirmed tick
\* provided it is then neither the last letter of currentWord nor lastLetter.
C29_HeldLetter ==
  [][HeldTick =>
       /\ (/\ FirstConfirmed
           /\ toUpperCase(lastCharOf(currentWord)) # gestureOf(hand)
           /\ lastLetter # gestureOf(hand)) =>
            currentWord' = Append(currentWord, toLowerCase(gestureOf(hand)))
       /\ SecondCopyLate]_vars

\* a held 'E' has been appended twice, DuplicateWindow apart, and refused a third time
C29_Witness ==
  /\ hand.present /\ rawGesture = "E" /\ smoothed = "E"
  /\ Len(currentWord) - heldFrom = 2 /\ sliceLast(currentWord, 2) = <<"e", "e">>
  /\ lastLetterTimestamp = heldFirst + DuplicateWindow
  /\ action = "triple_prevented"


\* C30: at most one detection interval is active, and while the hook's ref is
\* null (stopSignDetection has returned, or startSignDetection was never called)
\* no detection tick starts, whatever the sequence of starts and stops.
C30_Claim ==
  [][/\ Cardinality(timers') <= 1
     /\ detectionIntervalRef = 0 => ticksFired' = ticksFired]_vars

====
